---------------------------- MODULE Spec2Model ----------------------------
(***************************************************************************)
(* Model of src/linalg-wasm/src/lib.rs: the LinUCB bandit core             *)
(* (update_bandit_model, get_ucb_values_bulk) and the cosine-similarity    *)
(* routines (cosine_similarity, cosine_similarity_bulk).                   *)
(*                                                                         *)
(* The functions are pure; the state of the model is the host that owns a  *)
(* BanditModel, calls one exported function at a time and, after a         *)
(* successful update, keeps the returned model for the next call.          *)
(*                                                                         *)
(* f64 values are modelled as exact rationals extended with NaN, +inf and  *)
(* -inf.  A finite result whose magnitude exceeds MaxFinite overflows to   *)
(* an infinity, as an f64 result beyond f64::MAX does.  Rounding of        *)
(* additions, products and quotients is not modelled (they are exact);     *)
(* sqrt rounds down to a grid.  Signed zero is not modelled.               *)
(* The dimension is small, so the usize product d * d never wraps.         *)
(* Deserialization of the arguments is outside the model: every input is   *)
(* a deserialized value.                                                   *)
(***************************************************************************)
EXTENDS Integers, Sequences, FiniteSets, TLC

(***************************************************************************)
(* Bounds of the model.                                                    *)
(***************************************************************************)
\* largest finite magnitude of the modelled f64 (stands for f64::MAX)
MaxFinite == 100
\* sqrt results are rounded down to a multiple of 1/(d * SqrtGrid)
SqrtGrid == 4
\* largest declared dimension of a model handed to the core
MaxDim == 2
\* number of successful updates in one chain
MaxUpdates == 2
\* number of candidates in one scoring batch
MaxArticles == 3
\* number of pairs in one bulk similarity call
MaxBatch == 2
\* length of a vector handed to the similarity functions
MaxVecLen == 2

(***************************************************************************)
(* f64                                                                     *)
(***************************************************************************)
Abs(i) == IF i < 0 THEN -i ELSE i

Sign(i) == IF i < 0 THEN -1 ELSE IF i > 0 THEN 1 ELSE 0

RECURSIVE Gcd(_, _)
Gcd(a, b) == IF b = 0 THEN a ELSE Gcd(b, a % b)

NaN == [k |-> "nan", n |-> 0, d |-> 1]

PInf == [k |-> "inf", n |-> 1, d |-> 1]

NInf == [k |-> "inf", n |-> -1, d |-> 1]

Inf(s) == IF s < 0 THEN NInf ELSE PInf

\* the f64 nearest to the rational n/d (d # 0): the rational itself in lowest
\* terms, or an infinity when it is beyond the largest finite value
Fin(n, d) ==
    LET s == IF d < 0 THEN -1 ELSE 1
        g == Gcd(Abs(n), Abs(d))
        nn == (s * n) \div g
        dd == (s * d) \div g
    IN  IF Abs(nn) > MaxFinite * dd
        THEN Inf(nn)
        ELSE [k |-> "fin", n |-> nn, d |-> dd]

F(i) == Fin(i, 1)

is_finite(v) == v.k = "fin"

FNeg(v) == IF v.k = "nan" THEN NaN ELSE [v EXCEPT !.n = -v.n]

\* a + b
FAdd(a, b) ==
    CASE a.k = "nan" \/ b.k = "nan" -> NaN
      [] a.k = "inf" /\ b.k = "inf" -> IF a.n = b.n THEN a ELSE NaN
      [] a.k = "inf" -> a
      [] b.k = "inf" -> b
      [] OTHER -> Fin(a.n * b.d + b.n * a.d, a.d * b.d)

\* a - b
FSub(a, b) == FAdd(a, FNeg(b))

\* a * b
FMul(a, b) ==
    CASE a.k = "nan" \/ b.k = "nan" -> NaN
      [] a.k = "inf" \/ b.k = "inf" ->
            IF a.n = 0 \/ b.n = 0 THEN NaN ELSE Inf(Sign(a.n) * Sign(b.n))
      [] OTHER -> Fin(a.n * b.n, a.d * b.d)

\* a / b
FDiv(a, b) ==
    CASE a.k = "nan" \/ b.k = "nan" -> NaN
      [] a.k = "inf" /\ b.k = "inf" -> NaN
      [] a.k = "inf" -> Inf(a.n * (IF b.n < 0 THEN -1 ELSE 1))
      [] b.k = "inf" -> F(0)
      [] b.n = 0 -> IF a.n = 0 THEN NaN ELSE Inf(a.n)
      [] OTHER -> Fin(a.n * b.d, a.d * b.n)

\* f64::abs
FAbs(v) == IF v.k = "nan" THEN NaN ELSE [v EXCEPT !.n = Abs(v.n)]

\* a == b on f64: NaN equals nothing, itself included
FEq(a, b) == a.k # "nan" /\ b.k # "nan" /\ a = b

RECURSIVE Isqrt(_, _)
\* the largest r >= lo with r * r <= m
Isqrt(m, lo) == IF (lo + 1) * (lo + 1) > m THEN lo ELSE Isqrt(m, lo + 1)

\* f64::sqrt
FSqrt(v) ==
    CASE v.k = "nan" -> NaN
      [] v.k = "inf" -> IF v.n > 0 THEN PInf ELSE NaN
      [] v.n < 0 -> NaN
      [] OTHER -> Fin(Isqrt(v.n * v.d * SqrtGrid * SqrtGrid, 0), v.d * SqrtGrid)

\* the exponent of EPS = 1e-12
EPS_EXP == 12

RECURSIVE LtPow10(_, _, _)
\* a * 10^e < d for naturals a, d, computed without forming 10^e
LtPow10(a, d, e) == IF e = 0 THEN a < d ELSE LtPow10(a, (d + 9) \div 10, e - 1)

\* v.abs() < EPS
AbsBelowEPS(v) == v.k = "fin" /\ LtPow10(Abs(v.n), v.d, EPS_EXP)

(***************************************************************************)
(* ndarray: views over flattened row-major data, dot products              *)
(***************************************************************************)
RECURSIVE DotUpTo(_, _, _)
DotUpTo(u, v, k) ==
    IF k = 0 THEN F(0) ELSE FAdd(DotUpTo(u, v, k - 1), FMul(u[k], v[k]))

\* 1-D . 1-D: the products summed in index order (both of the same length)
dot(u, v) == DotUpTo(u, v, Len(u))

\* row i and column j (1-based) of the d x d view over the flattened data
Row(m, d, i) == [j \in 1..d |-> m[(i - 1) * d + j]]

Col(m, d, j) == [i \in 1..d |-> m[(i - 1) * d + j]]

\* 2-D . 1-D
mat_dot_vec(m, d, v) == [i \in 1..d |-> dot(Row(m, d, i), v)]

\* (the matrix forgotten: x itself in place of x^T . A_inv)
vec_dot_mat_Forgotten(v, m, d) == v

\* 1-D . 2-D (and the 1 x d row of (1 x d) . (d x d))
vec_dot_mat(v, m, d) == [j \in 1..d |-> dot(v, Col(m, d, j))]

\* (d x 1) . (1 x d), flattened row-major
outer(u, v, d) ==
    [k \in 1..(d * d) |-> FMul(u[((k - 1) \div d) + 1], v[((k - 1) % d) + 1])]

\* Array2::from_shape_vec((d, d), v): the vector must hold exactly d * d elements
Array2_from_shape_vec(d, v) == Len(v) = d * d

\* ArrayView2::from_shape((d, d), &v): the slice must hold at least d * d
\* elements; the view covers the first d * d of them
ArrayView2_from_shape(d, v) == d * d <= Len(v)

Ok(v) == [tag |-> "Ok", value |-> v]

Err(msg) == [tag |-> "Err", msg |-> msg]

\* the call ends in a panic (a trap of the wasm instance), not in a return
Panic == [tag |-> "Panic"]

(***************************************************************************)
(* update_bandit_model                                                     *)
(***************************************************************************)
\* (the quotient added instead of subtracted)
NewAInv_Added(a_inv, numerator_matrix, denominator, d) ==
    [k \in 1..(d * d) |-> FAdd(a_inv[k], FDiv(numerator_matrix[k], denominator))]

\* a_inv = a_inv - numerator_matrix / denominator
NewAInv(a_inv, numerator_matrix, denominator, d) ==
    [k \in 1..(d * d) |-> FSub(a_inv[k], FDiv(numerator_matrix[k], denominator))]

\* b = b + x.to_owned() * reward
NewB(b, x, reward) == [k \in 1..Len(b) |-> FAdd(b[k], FMul(x[k], reward))]

\* (the vector A_inv . x stored as the new a_inv instead of the matrix)
ShermanMorrison_StoresVector(model, x, reward, a_inv_x, denominator) ==
    Ok([a_inv |-> a_inv_x, b |-> NewB(model.b, x, reward),
        dimension |-> model.dimension])

\* steps 5, 6 and the result, once every check has passed
ShermanMorrison(model, x, reward, a_inv_x, denominator) ==
    LET d == model.dimension
        numerator_matrix == outer(a_inv_x, vec_dot_mat(x, model.a_inv, d), d)
    IN  IF Len(model.b) # Len(x)
        THEN Err("Shape mismatch when updating b.")
        ELSE Ok([a_inv |-> NewAInv(model.a_inv, numerator_matrix, denominator, d),
                 b |-> NewB(model.b, x, reward),
                 dimension |-> d])

\* (the near-zero check left out)
UpdateValidated_NoEPS(model, x, reward) ==
    LET d == model.dimension
        a_inv_x == mat_dot_vec(model.a_inv, d, x)
        denominator == FAdd(F(1), dot(x, a_inv_x))
    IN  IF ~is_finite(denominator)
        THEN Err("Denominator is non-finite (NaN/Inf) in Sherman-Morrison update.")
        ELSE ShermanMorrison(model, x, reward, a_inv_x, denominator)

\* line 159 on: the denominator and check 4
UpdateValidated(model, x, reward) ==
    LET d == model.dimension
        a_inv_x == mat_dot_vec(model.a_inv, d, x)
        x_t_a_inv_x == dot(x, a_inv_x)
        denominator == FAdd(F(1), x_t_a_inv_x)
    IN  IF ~is_finite(denominator)
        THEN Err("Denominator is non-finite (NaN/Inf) in Sherman-Morrison update.")
        ELSE IF AbsBelowEPS(denominator)
        THEN Err("Denominator too small in Sherman-Morrison update (numerical instability).")
        ELSE ShermanMorrison(model, x, reward, a_inv_x, denominator)

\* (the length of the embedding checked before its elements)
InputError_LengthFirst(model, embedding) ==
    LET d == model.dimension
    IN  IF d = 0
        THEN "Bandit model dimension cannot be zero."
        ELSE IF Len(model.a_inv) # d * d
        THEN "Bandit model A_inv length mismatch"
        ELSE IF Len(model.b) # d
        THEN "Bandit model b length mismatch"
        ELSE IF \E k \in 1..Len(model.a_inv) : ~is_finite(model.a_inv[k])
        THEN "Bandit model A_inv contains non-finite values (NaN/Inf)."
        ELSE IF \E k \in 1..Len(model.b) : ~is_finite(model.b[k])
        THEN "Bandit model b contains non-finite values (NaN/Inf)."
        ELSE IF Len(embedding) # d
        THEN "Embedding dimension mismatch."
        ELSE IF \E k \in 1..Len(embedding) : ~is_finite(embedding[k])
        THEN "Embedding contains non-finite values (NaN/Inf)."
        ELSE ""

\* checks 1 to 3 and the checks of the embedding, in the order of the code: the
\* message of the first check that fails, "" when all pass
InputError(model, embedding) ==
    LET d == model.dimension
    IN  IF d = 0
        THEN "Bandit model dimension cannot be zero."
        ELSE IF Len(model.a_inv) # d * d
        THEN "Bandit model A_inv length mismatch"
        ELSE IF Len(model.b) # d
        THEN "Bandit model b length mismatch"
        ELSE IF \E k \in 1..Len(model.a_inv) : ~is_finite(model.a_inv[k])
        THEN "Bandit model A_inv contains non-finite values (NaN/Inf)."
        ELSE IF \E k \in 1..Len(model.b) : ~is_finite(model.b[k])
        THEN "Bandit model b contains non-finite values (NaN/Inf)."
        ELSE IF \E k \in 1..Len(embedding) : ~is_finite(embedding[k])
        THEN "Embedding contains non-finite values (NaN/Inf)."
        ELSE IF Len(embedding) # d
        THEN "Embedding dimension mismatch."
        ELSE ""

update_bandit_model(model, embedding, reward) ==
    LET e == InputError(model, embedding)
    IN  IF e # ""
        THEN Err(e)
        ELSE IF ~Array2_from_shape_vec(model.dimension, model.a_inv)
        THEN Err("A_inv shape error")
        ELSE UpdateValidated(model, embedding, reward)

(***************************************************************************)
(* get_ucb_values_bulk                                                     *)
(***************************************************************************)
\* alpha = base_alpha + (1.0 - user_ctr) * 0.5, base_alpha = 0.5
Alpha(user_ctr) == FAdd(Fin(1, 2), FMul(FSub(F(1), user_ctr), Fin(1, 2)))

\* the ucb of one article whose embedding has length d
Ucb(a_inv, d, hat_theta, alpha, x) ==
    LET term1 == dot(x, hat_theta)
        x_t_a_inv == vec_dot_mat(x, a_inv, d)
        term2_sqrt == dot(x_t_a_inv, x)
        term2 == FMul(alpha, FSqrt(FAbs(term2_sqrt)))
    IN  FAdd(term1, term2)

RECURSIVE UcbLoop(_, _, _, _, _, _)
\* the for loop over the articles, the first k of them done
UcbLoop(articles, k, a_inv, d, hat_theta, alpha) ==
    IF k = 0
    THEN << >>
    ELSE LET done == UcbLoop(articles, k - 1, a_inv, d, hat_theta, alpha)
             article == articles[k]
         IN  IF Len(article.embedding) # d
             THEN done
             ELSE Append(done, [article_id |-> article.article_id,
                                ucb |-> Ucb(a_inv, d, hat_theta, alpha,
                                            article.embedding)])

get_ucb_values_bulk(model, articles, user_ctr) ==
    LET d == model.dimension
    IN  IF d = 0
        THEN Err("Bandit model dimension cannot be zero.")
        ELSE IF ~ArrayView2_from_shape(d, model.a_inv)
        THEN Err("ShapeError/OutOfBounds: out of bounds indexing")
        ELSE IF Len(model.b) # d
        THEN Panic
        ELSE Ok(UcbLoop(articles, Len(articles), model.a_inv, d,
                        mat_dot_vec(model.a_inv, d, model.b), Alpha(user_ctr)))

(***************************************************************************)
(* cosine_similarity, cosine_similarity_bulk                               *)
(***************************************************************************)
\* vec1.iter().zip(vec2.iter()).map(|(&a, &b)| a * b).sum()
dot_product(vec1, vec2) == dot(vec1, vec2)

\* vec.iter().map(|&a| a * a).sum::<f64>().sqrt()
magnitude(vec) == FSqrt(dot(vec, vec))

cosine_similarity(vec1, vec2) ==
    IF Len(vec1) # Len(vec2)
    THEN Err("Vector dimensions mismatch.")
    ELSE IF Len(vec1) = 0
    THEN Err("Vectors cannot be empty.")
    ELSE IF FEq(magnitude(vec1), F(0)) \/ FEq(magnitude(vec2), F(0))
    THEN Ok(F(0))
    ELSE Ok(FDiv(dot_product(vec1, vec2), FMul(magnitude(vec1), magnitude(vec2))))

\* (the zero-magnitude check left out)
BulkEntry_NoZeroCheck(vec1, vec2) ==
    IF Len(vec1) # Len(vec2)
    THEN F(0)
    ELSE IF Len(vec1) = 0
    THEN F(0)
    ELSE FDiv(dot_product(vec1, vec2), FMul(magnitude(vec1), magnitude(vec2)))

\* one iteration of the loop of cosine_similarity_bulk: the value pushed
BulkEntry(vec1, vec2) ==
    IF Len(vec1) # Len(vec2)
    THEN F(0)
    ELSE IF Len(vec1) = 0
    THEN F(0)
    ELSE IF FEq(magnitude(vec1), F(0)) \/ FEq(magnitude(vec2), F(0))
    THEN F(0)
    ELSE FDiv(dot_product(vec1, vec2), FMul(magnitude(vec1), magnitude(vec2)))

cosine_similarity_bulk(vec1s, vec2s) ==
    IF Len(vec1s) # Len(vec2s)
    THEN Err("Input vector arrays must have the same length.")
    ELSE Ok([i \in 1..Len(vec1s) |-> BulkEntry(vec1s[i], vec2s[i])])

(***************************************************************************)
(* The host: it owns a model, calls one exported function at a time and    *)
(* keeps the model a successful update returns.                            *)
(***************************************************************************)
VARIABLES
    model,      \* the BanditModel the host holds
    first,      \* the model the host started with
    call,       \* the last call: the function and its arguments
    ret,        \* what the last call ended in
    updates     \* the number of successful updates so far

vars == <<model, first, call, ret, updates>>

\* the largest finite f64
Big == F(MaxFinite)

\* inputs: the diagonal (first entry, later entries) and the entries above and
\* below the diagonal of the matrices the host may hold
DiagPairs == {<<F(1), F(1)>>, <<F(-1), F(1)>>, <<Big, FNeg(Big)>>, <<NaN, F(1)>>}

OffPairs == {<<F(0), F(0)>>, <<F(1), F(1)>>, <<F(1), F(0)>>}

\* element k of the flattened matrix of declared dimension d
MatEntry(d, k, dp, op) ==
    LET w == IF d = 0 THEN 1 ELSE d
        i == (k - 1) \div w
        j == (k - 1) % w
    IN  IF i = j THEN (IF i = 0 THEN dp[1] ELSE dp[2])
        ELSE IF i < j THEN op[1] ELSE op[2]

\* lengths next to n: one short, exact, one long
Near(n) == {l \in {n - 1, n, n + 1} : l >= 0}

\* the models a host may hand in: any declared dimension, arrays of the right
\* length or off by one, finite or not, symmetric or not
InitModels ==
    { [a_inv |-> [k \in 1..la |-> MatEntry(d, k, dp, op)],
       b |-> [k \in 1..lb |-> bv],
       dimension |-> d] :
        d \in 0..MaxDim, la \in 0..(MaxDim * MaxDim + 1), lb \in 0..(MaxDim + 1),
        dp \in DiagPairs, op \in OffPairs, bv \in {F(0), NaN} }

\* the feature vectors of an update
Embeddings ==
    { [k \in 1..l |-> IF k = 1 THEN xa ELSE xr] :
        l \in 0..(MaxDim + 1), xa \in {F(0), F(1), F(-1), NaN}, xr \in {F(0), F(1)} }

Rewards == {F(1), Big, NaN}

NoCall == [op |-> "none"]

NoRet == [tag |-> "None"]

Init ==
    /\ model \in { m \in InitModels :
                      /\ Len(m.a_inv) \in Near(m.dimension * m.dimension)
                      /\ Len(m.b) \in Near(m.dimension) }
    /\ first = model
    /\ call = NoCall
    /\ ret = NoRet
    /\ updates = 0

\* The functions are pure and only a successful update changes what the host
\* holds, so a call made after any other call is a call the host could have
\* made in its place: the host goes on only from the start or from a
\* successful update.
Fresh == ret = NoRet \/ (call.op = "update" /\ ret.tag = "Ok")

\* the host calls update_bandit_model on its model and keeps the result
Update(embedding, reward) ==
    /\ LET r == update_bandit_model(model, embedding, reward)
       IN  /\ call' = [op |-> "update", model |-> model,
                       embedding |-> embedding, reward |-> reward]
           /\ ret' = r
           /\ model' = IF r.tag = "Ok" THEN r.value ELSE model
           /\ updates' = IF r.tag = "Ok" THEN updates + 1 ELSE updates
    /\ UNCHANGED first

UpdateStep ==
    /\ updates < MaxUpdates
    /\ Fresh
    /\ \E embedding \in Embeddings, reward \in Rewards : Update(embedding, reward)

NextUpdate == UpdateStep

SpecUpdate == Init /\ [][NextUpdate]_vars

\* the candidates of a scoring call: embeddings of any length from 1 to one
\* more than the largest dimension, the ids by position
ArticleIds == <<"A", "B", "C", "D", "E", "F">>

ArticleLists ==
    UNION { { [k \in 1..n |-> [article_id |-> ArticleIds[k],
                               embedding |-> [i \in 1..lens[k] |-> F(1)]]] :
                lens \in [1..n -> 1..(MaxDim + 1)] } : n \in 0..MaxArticles }

UserCtrs == {F(0), F(1)}

\* the host calls get_ucb_values_bulk on its model
Score(articles, user_ctr) ==
    /\ call' = [op |-> "score", model |-> model, articles |-> articles,
                user_ctr |-> user_ctr]
    /\ ret' = get_ucb_values_bulk(model, articles, user_ctr)
    /\ UNCHANGED <<model, first, updates>>

ScoreStep ==
    /\ Fresh
    /\ \E articles \in ArticleLists, user_ctr \in UserCtrs : Score(articles, user_ctr)

NextBandit == UpdateStep \/ ScoreStep

SpecBandit == Init /\ [][NextBandit]_vars

\* the vectors of a similarity call
Vectors ==
    { [k \in 1..l |-> IF k = 1 THEN va ELSE vr] :
        l \in 0..MaxVecLen, va \in {F(0), F(1), F(-1), Big}, vr \in {F(0), F(1)} }

\* the vectors of the batches of a bulk similarity call
BatchVectors1 == { [k \in 1..l |-> c] : l \in 0..MaxVecLen, c \in {F(1), Big} }

BatchVectors2 == { [k \in 1..l |-> c] : l \in 0..MaxVecLen, c \in {F(0), F(-1)} }

Batches(vs) == UNION { [1..n -> vs] : n \in 0..MaxBatch }

\* a host that holds no model and calls the similarity functions
InitSimilarity ==
    /\ model = [a_inv |-> << >>, b |-> << >>, dimension |-> 0]
    /\ first = model
    /\ call = NoCall
    /\ ret = NoRet
    /\ updates = 0

Cosine(vec1, vec2) ==
    /\ call' = [op |-> "cosine", vec1 |-> vec1, vec2 |-> vec2]
    /\ ret' = cosine_similarity(vec1, vec2)
    /\ UNCHANGED <<model, first, updates>>

CosineBulk(vec1s, vec2s) ==
    /\ call' = [op |-> "cosine_bulk", vec1s |-> vec1s, vec2s |-> vec2s]
    /\ ret' = cosine_similarity_bulk(vec1s, vec2s)
    /\ UNCHANGED <<model, first, updates>>

CosineStep ==
    /\ Fresh
    /\ \E vec1 \in Vectors, vec2 \in Vectors : Cosine(vec1, vec2)

CosineBulkStep ==
    /\ Fresh
    /\ \E vec1s \in Batches(BatchVectors1), vec2s \in Batches(BatchVectors2) :
          CosineBulk(vec1s, vec2s)

NextSimilarity == CosineStep \/ CosineBulkStep

SpecSimilarity == InitSimilarity /\ [][NextSimilarity]_vars

(***************************************************************************)
(* The error taxonomy: the kind of each message the code returns.          *)
(***************************************************************************)
ErrorKind(msg) ==
    CASE msg = "Bandit model dimension cannot be zero." -> "InvalidDimension"
      [] msg \in {"Bandit model A_inv length mismatch",
                  "Bandit model b length mismatch",
                  "Embedding dimension mismatch.",
                  "A_inv shape error",
                  "Shape mismatch when updating b.",
                  "ShapeError/OutOfBounds: out of bounds indexing",
                  "Vector dimensions mismatch.",
                  "Input vector arrays must have the same length."} -> "ShapeMismatch"
      [] msg \in {"Bandit model A_inv contains non-finite values (NaN/Inf).",
                  "Bandit model b contains non-finite values (NaN/Inf).",
                  "Embedding contains non-finite values (NaN/Inf)."} -> "NonFiniteInput"
      [] msg \in {"Denominator is non-finite (NaN/Inf) in Sherman-Morrison update.",
                  "Denominator too small in Sherman-Morrison update (numerical instability)."}
            -> "NumericalInstability"
      [] msg = "Vectors cannot be empty." -> "EmptyInput"
      [] OTHER -> "Unknown"

RetKind == IF ret.tag = "Err" THEN ErrorKind(ret.msg) ELSE ret.tag

(***************************************************************************)
(* The update as the specification states it, on the last call.            *)
(***************************************************************************)
IsUpdate == call.op = "update"

AllFinite(v) == \A k \in 1..Len(v) : is_finite(v[k])

\* preconditions 1 to 5 of update
Pre1 == call.model.dimension # 0

Pre2 == Len(call.model.a_inv) = call.model.dimension * call.model.dimension

Pre3 == Len(call.model.b) = call.model.dimension

Pre4 ==
    /\ AllFinite(call.model.a_inv)
    /\ AllFinite(call.model.b)
    /\ AllFinite(call.embedding)

Pre5 == Len(call.embedding) = call.model.dimension

PreAll == Pre1 /\ Pre2 /\ Pre3 /\ Pre4 /\ Pre5

RECURSIVE SumTo(_, _)
\* f[1] + ... + f[n], from 0.0
SumTo(f, n) == IF n = 0 THEN F(0) ELSE FAdd(SumTo(f, n - 1), f[n])

\* P[i][j] of the flattened d x d matrix, i and j from 1
At(P, d, i, j) == P[(i - 1) * d + j]

\* (P . x)[i]
SpecPx(P, x, d, i) == SumTo([j \in 1..d |-> FMul(At(P, d, i, j), x[j])], d)

\* (x^T . P)[j]
SpecxP(P, x, d, j) == SumTo([i \in 1..d |-> FMul(x[i], At(P, d, i, j))], d)

\* 1 + x . P . x
SpecDenom(P, x, d) ==
    FAdd(F(1), SumTo([i \in 1..d |-> FMul(x[i], SpecPx(P, x, d, i))], d))

\* the denominator of the last call, its preconditions holding
Denom == SpecDenom(call.model.a_inv, call.embedding, call.model.dimension)

\* the model the specification gives for (P, b, d), x and reward
SpecUpdated(m, x, reward) ==
    LET d == m.dimension
        P == m.a_inv
        den == SpecDenom(P, x, d)
    IN  [a_inv |-> [k \in 1..(d * d) |->
                      LET i == ((k - 1) \div d) + 1
                          j == ((k - 1) % d) + 1
                      IN  FSub(At(P, d, i, j),
                               FDiv(FMul(SpecPx(P, x, d, i), SpecxP(P, x, d, j)), den))],
         b |-> [i \in 1..d |-> FAdd(m.b[i], FMul(reward, x[i]))],
         dimension |-> d]

\* the example of the specification: identity of dimension 2, b = [0, 0],
\* x = [1, 0], reward 1
IsExample ==
    /\ IsUpdate
    /\ call.model = [a_inv |-> <<F(1), F(0), F(0), F(1)>>, b |-> <<F(0), F(0)>>,
                     dimension |-> 2]
    /\ call.embedding = <<F(1), F(0)>>
    /\ call.reward = F(1)

\* C1: an update whose preconditions hold and whose denominator is finite
\* and not below 1e-12 in magnitude returns a model, and every returned model
\* is P - (P x)(x^T P) / (1 + x P x), b + reward * x, with the dimension of
\* the input; the example returns [0.5, 0, 0, 1] and [1, 0].
C1_UpdateFormula ==
    /\ (IsUpdate /\ PreAll /\ is_finite(Denom) /\ ~AbsBelowEPS(Denom))
          => ret.tag = "Ok"
    /\ (IsUpdate /\ ret.tag = "Ok")
          => ret.value = SpecUpdated(call.model, call.embedding, call.reward)
    /\ IsExample
          => ret = Ok([a_inv |-> <<Fin(1, 2), F(0), F(0), F(1)>>,
                       b |-> <<F(1), F(0)>>, dimension |-> 2])

C1_Witness ==
    /\ IsExample
    /\ ret.tag = "Ok"
    /\ ret.value.a_inv[1] = Fin(1, 2)

\* the message the first violated precondition of the last call gives
ExpectedMsg ==
    IF ~Pre1 THEN "Bandit model dimension cannot be zero."
    ELSE IF ~Pre2 THEN "Bandit model A_inv length mismatch"
    ELSE IF ~Pre3 THEN "Bandit model b length mismatch"
    ELSE IF ~AllFinite(call.model.a_inv)
    THEN "Bandit model A_inv contains non-finite values (NaN/Inf)."
    ELSE IF ~AllFinite(call.model.b)
    THEN "Bandit model b contains non-finite values (NaN/Inf)."
    ELSE IF ~AllFinite(call.embedding)
    THEN "Embedding contains non-finite values (NaN/Inf)."
    ELSE "Embedding dimension mismatch."

ExpectedKind ==
    IF ~Pre1 THEN "InvalidDimension"
    ELSE IF ~Pre2 \/ ~Pre3 THEN "ShapeMismatch"
    ELSE IF ~Pre4 THEN "NonFiniteInput"
    ELSE "ShapeMismatch"

\* C2: an update that violates a precondition returns the error of the
\* lowest-numbered precondition it violates (1 dimension, 2 length of a_inv,
\* 3 length of b, 4 finiteness, 5 length of the embedding), and an update
\* that violates none returns none of these errors.
C2_FirstFailureWins ==
    IsUpdate =>
        /\ ~PreAll => /\ ret.tag = "Err"
                      /\ ret.msg = ExpectedMsg
                      /\ ErrorKind(ret.msg) = ExpectedKind
        /\ PreAll => RetKind \in {"Ok", "NumericalInstability"}

\* an embedding of the wrong length that holds a NaN, the model being valid
C2_Witness ==
    /\ IsUpdate
    /\ Pre1 /\ Pre2 /\ Pre3
    /\ AllFinite(call.model.a_inv) /\ AllFinite(call.model.b)
    /\ ~Pre5
    /\ ~AllFinite(call.embedding)
    /\ RetKind = "NonFiniteInput"

\* C3: an update whose preconditions hold and whose denominator is not finite
\* or is below 1e-12 in magnitude returns NumericalInstability and no model:
\* the host is left with the model it passed in.
C3_InstabilityRejected ==
    (IsUpdate /\ PreAll /\ (~is_finite(Denom) \/ AbsBelowEPS(Denom)))
        => /\ ret.tag = "Err"
           /\ ErrorKind(ret.msg) = "NumericalInstability"
           /\ model = call.model

\* P = [-1], x = [1]: the denominator is 0
C3_Witness ==
    /\ IsUpdate
    /\ call.model.dimension = 1
    /\ call.model.a_inv = <<F(-1)>>
    /\ Len(call.model.b) = 1 /\ AllFinite(call.model.b)
    /\ call.embedding = <<F(1)>>
    /\ Denom = F(0)
    /\ RetKind = "NumericalInstability"

\* C4: every model a successful update returns has only finite entries in
\* inverseCovariance and rewardWeightedSum, whatever the reward.
C4_UpdateKeepsFinite ==
    (IsUpdate /\ ret.tag = "Ok")
        => AllFinite(ret.value.a_inv) /\ AllFinite(ret.value.b)

WellShaped(m) ==
    /\ Len(m.a_inv) = m.dimension * m.dimension
    /\ Len(m.b) = m.dimension

\* C5: a successful update returns a model of the dimension d of its input
\* with d * d and d elements, and after any number of successful updates the
\* host's model has the dimension of the first model and these lengths.
C5_ShapeKept ==
    /\ (IsUpdate /\ ret.tag = "Ok")
          => /\ ret.value.dimension = call.model.dimension
             /\ WellShaped(ret.value)
    /\ updates > 0
          => /\ model.dimension = first.dimension
             /\ WellShaped(first)
             /\ WellShaped(model)

\* the end of a chain of successful updates of a model of dimension 2
C5_Witness ==
    /\ updates = MaxUpdates
    /\ IsUpdate /\ ret.tag = "Ok"
    /\ call.model # first
    /\ model.dimension = 2
    /\ Len(model.a_inv) = 4

\* P[i][j] == P[j][i] for all i, j, as f64 compares
Symmetric(m) ==
    \A i, j \in 1..m.dimension :
        FEq(At(m.a_inv, m.dimension, i, j), At(m.a_inv, m.dimension, j, i))

\* C6: a successful update of a model whose inverseCovariance is symmetric
\* returns a symmetric inverseCovariance, and a host that starts with a
\* symmetric one holds a symmetric one after any number of successful updates.
C6_SymmetryKept ==
    /\ (IsUpdate /\ ret.tag = "Ok" /\ Symmetric(call.model))
          => Symmetric(ret.value)
    /\ (updates > 0 /\ Symmetric(first)) => Symmetric(model)

\* two updates of a symmetric matrix with entries off the diagonal
C6_Witness ==
    /\ updates = MaxUpdates
    /\ IsUpdate /\ ret.tag = "Ok"
    /\ first.a_inv = <<F(1), F(1), F(1), F(1)>>
    /\ Symmetric(call.model)
    /\ ret.value.a_inv # call.model.a_inv
    /\ ret.value.a_inv[2] # F(0)

(***************************************************************************)
(* Scoring and similarity as the specification states them.                *)
(***************************************************************************)
IsScore == call.op = "score"

RECURSIVE MatchingIds(_, _, _)
\* the ids of the first k articles whose embedding has length d, in order
MatchingIds(articles, k, d) ==
    IF k = 0 THEN << >>
    ELSE IF Len(articles[k].embedding) = d
    THEN Append(MatchingIds(articles, k - 1, d), articles[k].article_id)
    ELSE MatchingIds(articles, k - 1, d)

\* the position in the input of the article with the given id
PositionOf(articles, id) == CHOOSE k \in 1..Len(articles) : articles[k].article_id = id

\* C7: for a model that passes the preconditions of scoreAll (dimension not
\* 0, inverseCovariance of d * d elements) scoreAll succeeds on every
\* candidate list, returns the ids of the candidates whose embedding has
\* length d in input order, and gives each the score it gets when scored
\* alone.
C7_ScoreAllFilters ==
    (/\ IsScore
     /\ call.model.dimension # 0
     /\ Len(call.model.a_inv) = call.model.dimension * call.model.dimension)
        => /\ ret.tag = "Ok"
           /\ [k \in 1..Len(ret.value) |-> ret.value[k].article_id]
                 = MatchingIds(call.articles, Len(call.articles), call.model.dimension)
           /\ \A k \in 1..Len(ret.value) :
                 LET alone == get_ucb_values_bulk(call.model,
                                 <<call.articles[PositionOf(call.articles,
                                                            ret.value[k].article_id)]>>,
                                 call.user_ctr)
                 IN  alone.tag = "Ok" /\ alone.value = <<ret.value[k]>>

\* C8: scoreAll with dimension d > 0 returns ShapeMismatch and never a score
\* list whenever inverseCovariance does not hold exactly d * d elements,
\* fewer or more.  (Stated of the calls that return; a call that ends in a
\* fault is the matter of C9.)
C8_ScoreAllRejectsLength ==
    (/\ IsScore
     /\ call.model.dimension > 0
     /\ Len(call.model.a_inv) # call.model.dimension * call.model.dimension
     /\ ret.tag # "Panic")
        => RetKind = "ShapeMismatch"

\* C9: every call of update and of scoreAll ends by returning a result or an
\* error string, whatever the lengths of the arrays of the model.
C9_CallsReturn ==
    (IsUpdate \/ IsScore) => ret.tag \in {"Ok", "Err"}

IsBulk == call.op = "cosine_bulk"

\* what entry i of the bulk result is to be: the value of the single-pair
\* call when it succeeds, 0.0 when it returns ShapeMismatch or EmptyInput
SingleOrZero(vec1, vec2) ==
    LET single == cosine_similarity(vec1, vec2)
    IN  IF single.tag = "Ok" THEN single.value ELSE F(0)

\* C10: similarityBulk returns an error exactly when the batches differ in
\* length; otherwise a list of the batch length whose entry i is what
\* similarity(as[i], bs[i]) returns, and 0.0 where that call returns
\* ShapeMismatch or EmptyInput, its only errors.
C10_BulkMatchesSingle ==
    IsBulk =>
        /\ ret.tag = "Err" <=> Len(call.vec1s) # Len(call.vec2s)
        /\ ret.tag \in {"Ok", "Err"}
        /\ ret.tag = "Ok" =>
              /\ Len(ret.value) = Len(call.vec1s)
              /\ \A i \in 1..Len(call.vec1s) :
                    /\ ret.value[i] = SingleOrZero(call.vec1s[i], call.vec2s[i])
                    /\ LET single == cosine_similarity(call.vec1s[i], call.vec2s[i])
                       IN  single.tag = "Err" =>
                              ErrorKind(single.msg) \in {"ShapeMismatch", "EmptyInput"}

\* a batch with a pair of unequal lengths and a pair of similarity -1
C10_Witness ==
    /\ IsBulk
    /\ ret.tag = "Ok"
    /\ Len(ret.value) = 2
    /\ Len(call.vec1s[1]) # Len(call.vec2s[1])
    /\ ret.value[1] = F(0)
    /\ cosine_similarity(call.vec1s[2], call.vec2s[2]) = Ok(F(-1))
    /\ ret.value[2] = F(-1)

=============================================================================
